---- MODULE Spec2Model ----
(***************************************************************************)
(* Model of the Kafka pub/sub adapter of pubsub/kafka/kafka.go.            *)
(*                                                                         *)
(* Strings are sequences of one-character strings, so that strings.Split   *)
(* is computed character by character.  The Kafka client library (sarama)  *)
(* is the environment: its producer, its consumer-group client and the     *)
(* session it drives through Setup / ConsumeClaim / Cleanup are modelled   *)
(* as a fake client that records sends and tracks committed offsets.       *)
(***************************************************************************)
EXTENDS Integers, Sequences, FiniteSets, TLC

VARIABLES
    props,          \* the property map handed to getKafkaMetadata
    meta,           \* the kafkaMetadata it returned, NoMeta before the call
    k,              \* the Kafka struct: producer, topics, consumerGroup, brokers
    initCalls,      \* number of Init calls made
    initRet,        \* what the last Init call returned, Unset before any
    nextProducer,   \* next producer handle NewSyncProducer hands out
    pubLog,         \* Publish calls: request and return value
    sendLog,        \* SendMessage calls seen by the producer: handle, message, result
    subPc,          \* position of the Subscribe caller
    subRet,         \* value Subscribe returned
    cs,             \* the consumer struct: ready (a gate id), callback
    myGate,         \* the channel value the caller's <-cs.ready evaluated
    closedGates,    \* gate ids that have been closed
    nextGate,       \* next fresh gate id for make(chan bool)
    err,            \* Subscribe's err variable, shared with the goroutine
    ctxCancelled,   \* ctx.Err() != nil
    wg,             \* the WaitGroup counter
    client,         \* consumer-group client: "none", "open", "closed"
    closeLog,       \* results of the client's Close calls, in order
    notifyReg,      \* signal.Notify(sigterm, ...) has been executed
    sigBuf,         \* signals buffered in sigterm (capacity 1)
    sigCount,       \* termination triggers fired so far
    trigAfterReady, \* a trigger fired after the caller's gate was released
    loopPc,         \* position of the background consume loop
    consumeCalls,   \* Consume invocations so far
    sess,           \* sessions started so far, over the broker's lifetime
    sessEnding,     \* the session's claims' message channels are closed
    claimPc,        \* per partition: position of its ConsumeClaim
    pos,            \* per partition: next offset the claim delivers
    resume,         \* per partition: offset the current session resumed at
    committed,      \* per partition: the offset the broker has on record
    curRes,         \* per partition and offset: callback result, latest session
    marked,         \* messages <<partition, offset>> marked in this session
    cbCalls,        \* per partition: this session's callback invocations, in order
    consumeErrSeen, \* some Consume invocation has returned an error
    panicked        \* a goroutine panicked (close of a closed channel)

vars == << props, meta, k, initCalls, initRet, nextProducer, pubLog, sendLog,
           subPc, subRet, cs, myGate, closedGates, nextGate, err, ctxCancelled,
           wg, client, closeLog, notifyReg, sigBuf, sigCount, trigAfterReady,
           loopPc, consumeCalls, sess, sessEnding, claimPc, pos, resume,
           committed, curRes, marked, cbCalls, consumeErrSeen,
           panicked >>

resolverVars == << props, meta >>
adapterVars  == << k, initCalls, initRet, nextProducer >>
producerVars == << pubLog, sendLog >>
callerVars   == << subPc, subRet, myGate, client, closeLog, notifyReg >>
signalVars   == << sigBuf, sigCount, trigAfterReady >>
gateVars     == << cs, closedGates, nextGate, panicked >>
loopVars     == << loopPc, consumeCalls, consumeErrSeen, err, ctxCancelled, wg >>
sessionVars  == << sess, sessEnding, claimPc, pos, resume, committed,
                   curRes, marked, cbCalls >>
subscribeVars == << callerVars, signalVars, gateVars, loopVars, sessionVars >>

----------------------------------------------------------------------------
(* Bounds *)

MaxLen      == 3    \* longest brokers or topics value, in characters
MaxGroupLen == 1    \* longest consumerGroup value, in characters
MaxInit     == 2    \* Init calls
MaxPublish  == 2    \* Publish calls
MaxConsume  == 3    \* Consume invocations that return before cancellation; the next blocks
MaxSignals  == 1    \* termination triggers
LogLen      == 2    \* records in each partition's log
MaxRejects  == 6    \* retriable rejections the broker answers one message with

----------------------------------------------------------------------------
(* Values *)

Nil     == "nil"            \* Go's nil: no error, no handle, no callback
Unset   == "unset"          \* marks a result no call has produced yet
Comma   == ","
Chars   == {"a", "b", Comma}
Keys    == {"brokers", "topics", "consumerGroup"}

ErrProducer == "ErrProducer"    \* sarama.NewSyncProducer failed
ErrSend     == "ErrSend"        \* SendMessage failed
ErrRefused  == "ErrRefused"     \* SendMessage failed with an error the producer does not retry
ErrConnect  == "ErrConnect"     \* sarama.NewConsumerGroup failed
ErrConsume  == "ErrConsume"     \* client.Consume returned an error
ErrCallback == "ErrCallback"    \* the handler returned an error
ErrClose    == "ErrClose"       \* client.Close returned an error

RECURSIVE StrOfLen(_)
StrOfLen(n) ==
    IF n = 0 THEN { <<>> }
    ELSE { Append(s, c) : s \in StrOfLen(n - 1), c \in Chars }

Strings(max) == UNION { StrOfLen(n) : n \in 0..max }

\* a key's value in a property map, or Missing when the map lacks the key
Missing == << "missing" >>
OptStrings(max) == Strings(max) \cup { Missing }

\* pubsub.Metadata.Properties: a map from some of the keys to strings
PropertyMap(b, t, g) ==
    LET v == [ brokers |-> b, topics |-> t, consumerGroup |-> g ]
    IN  [ key \in { x \in Keys : v[x] # Missing } |-> v[key] ]

Max(a, b) == IF a > b THEN a ELSE b
Range(s)  == { s[i] : i \in DOMAIN s }

----------------------------------------------------------------------------
(* strings.Split(s, ","), computed as the library's genSplit does: cut at   *)
(* the first separator, keep the piece before it, go on with the rest.      *)

RECURSIVE Index(_, _)
Index(s, from) ==           \* position of the first comma at or after from, 0 if none
    IF from > Len(s) THEN 0
    ELSE IF s[from] = Comma THEN from
    ELSE Index(s, from + 1)

RECURSIVE Split(_)
Split(s) ==
    LET m == Index(s, 1) IN
    IF m = 0 THEN << s >>
    ELSE << SubSeq(s, 1, m - 1) >> \o Split(SubSeq(s, m + 1, Len(s)))

\* Go's map index expression: the zero value "" for a missing key
Lookup(properties, key) ==
    IF key \in DOMAIN properties THEN properties[key] ELSE <<>>

\* the metadata variable before getKafkaMetadata has been called
NoMeta == [ Brokers |-> <<>>, Topics |-> <<>>, ConsumerGroup |-> <<>>, err |-> Unset ]

\* Mutants of getKafkaMetadata
getKafkaMetadata_NoEmptyCheck(properties) ==
    [ Brokers       |-> IF "brokers" \in DOMAIN properties
                        THEN Split(properties["brokers"]) ELSE <<>>,
      Topics        |-> IF "topics" \in DOMAIN properties
                        THEN Split(properties["topics"]) ELSE <<>>,
      ConsumerGroup |-> Lookup(properties, "consumerGroup"),
      err           |-> Nil ]

getKafkaMetadata_NoSplit(properties) ==
    [ Brokers       |-> IF "brokers" \in DOMAIN properties /\ properties["brokers"] # <<>>
                        THEN << properties["brokers"] >> ELSE <<>>,
      Topics        |-> IF "topics" \in DOMAIN properties /\ properties["topics"] # <<>>
                        THEN Split(properties["topics"]) ELSE <<>>,
      ConsumerGroup |-> Lookup(properties, "consumerGroup"),
      err           |-> Nil ]

\* getKafkaMetadata: the resolved metadata and the error it returns
getKafkaMetadata(properties) ==
    [ Brokers       |-> IF "brokers" \in DOMAIN properties /\ properties["brokers"] # <<>>
                        THEN Split(properties["brokers"]) ELSE <<>>,
      Topics        |-> IF "topics" \in DOMAIN properties /\ properties["topics"] # <<>>
                        THEN Split(properties["topics"]) ELSE <<>>,
      ConsumerGroup |-> Lookup(properties, "consumerGroup"),
      err           |-> Nil ]

----------------------------------------------------------------------------
(* The state after NewKafka(): a zero Kafka struct, nothing called yet.     *)

NilProducer == 0            \* the nil sarama.SyncProducer
NoGate      == 0            \* no channel
Partitions  == {1, 2}
\* the topic each partition belongs to
PartTopic   == << <<"a">>, <<"b">> >>
\* the payload of the record at each offset (offsets count from 0)
Payload(p, off) == 10 * p + off
Offsets     == 0..(LogLen - 1)
NoRes       == "none"

NewKafka ==
    [ producer |-> NilProducer, topics |-> <<>>, consumerGroup |-> <<>>,
      brokers |-> <<>> ]

InitAdapter ==
    /\ k = NewKafka
    /\ initCalls = 0
    /\ initRet = Unset
    /\ nextProducer = 1
    /\ pubLog = <<>>
    /\ sendLog = <<>>

InitSubscribe ==
    /\ subPc = "idle"
    /\ subRet = Nil
    /\ cs = [ ready |-> NoGate, callback |-> Nil ]
    /\ myGate = NoGate
    /\ closedGates = {}
    /\ nextGate = 1
    /\ err = Nil
    /\ ctxCancelled = FALSE
    /\ wg = 0
    /\ client = "none"
    /\ closeLog = <<>>
    /\ notifyReg = FALSE
    /\ sigBuf = 0
    /\ sigCount = 0
    /\ trigAfterReady = FALSE
    /\ loopPc = "idle"
    /\ consumeCalls = 0
    /\ sess = 0
    /\ sessEnding = FALSE
    /\ claimPc = [ p \in Partitions |-> "idle" ]
    /\ pos = [ p \in Partitions |-> 0 ]
    /\ resume = [ p \in Partitions |-> 0 ]
    /\ committed = [ p \in Partitions |-> 0 ]
    /\ curRes = [ p \in Partitions |-> [ o \in Offsets |-> NoRes ] ]
    /\ marked = {}
    /\ cbCalls = [ p \in Partitions |-> <<>> ]
    /\ consumeErrSeen = FALSE
    /\ panicked = FALSE

Init ==
    /\ props = << >>
    /\ meta = NoMeta
    /\ InitAdapter
    /\ InitSubscribe

----------------------------------------------------------------------------
(* The configuration resolver on its own: any property map, then the call.  *)

ResolverInit ==
    /\ \E b \in OptStrings(MaxLen), t \in OptStrings(MaxLen),
          g \in OptStrings(MaxGroupLen) : props = PropertyMap(b, t, g)
    /\ meta = NoMeta
    /\ InitAdapter
    /\ InitSubscribe

Resolve ==
    /\ meta.err = Unset
    /\ meta' = getKafkaMetadata(props)
    /\ UNCHANGED << props, adapterVars, producerVars, subscribeVars >>

ResolverNext == Resolve

ResolverSpec == ResolverInit /\ [][ResolverNext]_vars

----------------------------------------------------------------------------
(* Init and Publish                                                         *)

\* the property maps Init is called with: the test's map, a map with a
\* broker list and the other topic, and a map without brokers
InitProps ==
    { [ brokers |-> <<"a">>, topics |-> <<"a">>, consumerGroup |-> <<"a">> ],
      [ brokers |-> <<"a", Comma, "b">>, topics |-> <<"b">>,
        consumerGroup |-> <<"b">> ],
      [ topics |-> <<"a">>, consumerGroup |-> <<"a">> ] }

\* getSyncProducer: sarama.NewSyncProducer refuses an empty broker list and
\* may fail to connect (ok = FALSE); otherwise it hands out a fresh handle
getSyncProducer(m, ok) ==
    IF ok /\ m.Brokers # <<>>
    THEN [ producer |-> nextProducer, err |-> Nil ]
    ELSE [ producer |-> NilProducer, err |-> ErrProducer ]

\* Mutant of KafkaInit: assigns the resolved fields before the producer is
\* constructed
KafkaInit_AssignFirst(metadata, ok) ==
    /\ initCalls < MaxInit
    /\ subPc = "idle"
    /\ LET m == getKafkaMetadata(metadata)
           p == getSyncProducer(m, ok)
           ret == IF m.err # Nil THEN m.err ELSE p.err
       IN  /\ initRet' = ret
           /\ IF ret = Nil
              THEN /\ k' = [ brokers |-> m.Brokers, producer |-> p.producer,
                             topics |-> m.Topics, consumerGroup |-> m.ConsumerGroup ]
                   /\ nextProducer' = nextProducer + 1
              ELSE IF m.err = Nil
              THEN /\ k' = [ k EXCEPT !.brokers = m.Brokers, !.topics = m.Topics,
                                      !.consumerGroup = m.ConsumerGroup ]
                   /\ UNCHANGED nextProducer
              ELSE UNCHANGED << k, nextProducer >>
    /\ initCalls' = initCalls + 1
    /\ UNCHANGED << resolverVars, producerVars, subscribeVars >>

\* Kafka.Init
KafkaInit(metadata, ok) ==
    /\ initCalls < MaxInit
    /\ subPc = "idle"
    /\ LET m == getKafkaMetadata(metadata)
           p == getSyncProducer(m, ok)
           ret == IF m.err # Nil THEN m.err ELSE p.err
       IN  /\ initRet' = ret
           /\ IF ret = Nil
              THEN /\ k' = [ brokers |-> m.Brokers, producer |-> p.producer,
                             topics |-> m.Topics, consumerGroup |-> m.ConsumerGroup ]
                   /\ nextProducer' = nextProducer + 1
              ELSE UNCHANGED << k, nextProducer >>
    /\ initCalls' = initCalls + 1
    /\ UNCHANGED << resolverVars, producerVars, subscribeVars >>

\* pubsub.PublishRequest: a topic outside the adapter's list with a payload,
\* and a topic of the list with an empty payload
Requests ==
    { [ Topic |-> <<"o">>, Data |-> <<1, 2, 3>> ],
      [ Topic |-> <<"a">>, Data |-> <<>> ] }

\* getSyncProducer, line 167: config.Producer.Retry.Max
RetryBudget == 5

\* Mutant of ProducerConfig: the client's default retry budget
ProducerConfig_DefaultRetry ==
    [ RequiredAcks |-> "WaitForAll", RetryMax |-> 3, ReturnSuccesses |-> TRUE ]

\* getSyncProducer, lines 165-168: the configuration of every producer the
\* adapter creates
ProducerConfig ==
    [ RequiredAcks |-> "WaitForAll", RetryMax |-> RetryBudget,
      ReturnSuccesses |-> TRUE ]

\* the numbers of retriable rejections tried: none, and those around the
\* retry budget
RejectCounts == {0} \cup (RetryBudget - 1)..MaxRejects

\* what the broker does with the attempts to send one message: it answers the
\* first `rejects` attempts with an error the producer retries, and the
\* attempt after those with an acknowledgment or with an error the producer
\* does not retry
BrokerScripts == [ rejects : RejectCounts, final : {"ack", "refuse"} ]

Min(a, b) == IF a <= b THEN a ELSE b

\* the attempts the producer makes: the first, and a retry after each
\* retriable rejection while fewer than Retry.Max retries have been made
Attempts(script) == 1 + Min(script.rejects, ProducerConfig.RetryMax)

\* what SendMessage returns: the retriable error left when the retries are
\* used up, otherwise the answer to the last attempt
SendResult(script) ==
    IF script.rejects > ProducerConfig.RetryMax THEN ErrSend
    ELSE IF script.final = "ack" THEN Nil
    ELSE ErrRefused

\* the producer's SendMessage: blocks through its attempts against the
\* broker, which is recorded with its answer
SendMessage(log, msg, script) ==
    Append(log, [ producer |-> k.producer, msg |-> msg, broker |-> script,
                  attempts |-> Attempts(script), res |-> SendResult(script) ])

\* Mutant of Publish: sends again when the first send failed
Publish_Resend(req, script) ==
    /\ Len(pubLog) < MaxPublish
    /\ k.producer # NilProducer
    /\ LET msg == [ Topic |-> req.Topic, Value |-> req.Data ]
           once == SendMessage(sendLog, msg, script)
           ret == once[Len(once)].res
       IN  /\ sendLog' = IF ret # Nil THEN SendMessage(once, msg, script) ELSE once
           /\ pubLog' = Append(pubLog, [ req |-> req, ret |-> ret ])
    /\ UNCHANGED << resolverVars, adapterVars, subscribeVars >>

\* Mutant of Publish: reconnects, replacing the adapter's producer
Publish_NewProducer(req, script) ==
    /\ Len(pubLog) < MaxPublish
    /\ k.producer # NilProducer
    /\ LET sent == SendMessage(sendLog,
                               [ Topic |-> req.Topic, Value |-> req.Data ], script)
       IN  /\ sendLog' = sent
           /\ pubLog' = Append(pubLog, [ req |-> req, ret |-> sent[Len(sent)].res ])
    /\ k' = [ k EXCEPT !.producer = nextProducer ]
    /\ nextProducer' = nextProducer + 1
    /\ UNCHANGED << initCalls, initRet >>
    /\ UNCHANGED << resolverVars, subscribeVars >>

\* Kafka.Publish; a Publish on an adapter without a producer dereferences
\* nil and is not a call the adapter supports
Publish(req, script) ==
    /\ Len(pubLog) < MaxPublish
    /\ k.producer # NilProducer
    /\ LET sent == SendMessage(sendLog,
                               [ Topic |-> req.Topic, Value |-> req.Data ], script)
       IN  /\ sendLog' = sent
           /\ pubLog' = Append(pubLog, [ req |-> req, ret |-> sent[Len(sent)].res ])
    /\ UNCHANGED << resolverVars, adapterVars, subscribeVars >>

PublishNext ==
    \/ \E m \in InitProps, ok \in BOOLEAN : KafkaInit(m, ok)
    \/ \E req \in Requests, script \in BrokerScripts : Publish(req, script)

PublishSpec == Init /\ [][PublishNext]_vars

----------------------------------------------------------------------------
(* Subscribe: the caller                                                    *)

\* sarama.NewConsumerGroup refuses an empty broker list and may fail to
\* connect (ok = FALSE)
NewConsumerGroup(ok) == IF ok /\ k.brokers # <<>> THEN Nil ELSE ErrConnect

\* Mutant of SubscribeCall: goes on after a failed construction
SubscribeCall_IgnoreErr(handler, ok) ==
    /\ subPc = "idle"
    /\ cs' = [ callback |-> handler, ready |-> nextGate ]
    /\ nextGate' = nextGate + 1
    /\ err' = NewConsumerGroup(ok)
    /\ client' = IF NewConsumerGroup(ok) = Nil THEN "open" ELSE "none"
    /\ wg' = 1
    /\ loopPc' = "consume"
    /\ subPc' = "readgate"
    /\ UNCHANGED << subRet, myGate, closeLog, notifyReg, closedGates, panicked,
                    consumeCalls, consumeErrSeen, ctxCancelled >>
    /\ UNCHANGED << resolverVars, adapterVars, producerVars, signalVars, sessionVars >>

\* Subscribe, lines 105-134: the consumer struct with a fresh ready channel,
\* the client, then the context, the WaitGroup and the go statement
SubscribeCall(handler, ok) ==
    /\ subPc = "idle"
    /\ cs' = [ callback |-> handler, ready |-> nextGate ]
    /\ nextGate' = nextGate + 1
    /\ err' = NewConsumerGroup(ok)
    /\ IF NewConsumerGroup(ok) # Nil
       THEN /\ subRet' = NewConsumerGroup(ok)
            /\ subPc' = "done"
            /\ UNCHANGED << client, wg, loopPc >>
       ELSE /\ client' = "open"
            /\ wg' = 1
            /\ loopPc' = "consume"
            /\ subPc' = "readgate"
            /\ UNCHANGED subRet
    /\ UNCHANGED << myGate, closeLog, notifyReg, closedGates, panicked,
                    consumeCalls, consumeErrSeen, ctxCancelled >>
    /\ UNCHANGED << resolverVars, adapterVars, producerVars, signalVars, sessionVars >>

\* line 136, the operand of the receive: the caller reads cs.ready.  The read
\* is not synchronised with the loop's assignment at line 132; it yields
\* the value cs.ready holds at some moment after the go statement.
SubReadGate ==
    /\ subPc = "readgate"
    /\ myGate' = cs.ready
    /\ subPc' = "wait"
    /\ UNCHANGED << subRet, client, closeLog, notifyReg >>
    /\ UNCHANGED << resolverVars, adapterVars, producerVars, signalVars, gateVars,
                    loopVars, sessionVars >>

\* Mutant of SubPassGate: does not wait for the channel to be closed
SubPassGate_NoWait ==
    /\ subPc = "wait"
    /\ subPc' = "notify"
    /\ UNCHANGED << subRet, myGate, client, closeLog, notifyReg >>
    /\ UNCHANGED << resolverVars, adapterVars, producerVars, signalVars, gateVars,
                    loopVars, sessionVars >>

\* line 136, the receive: returns once that channel is closed
SubPassGate ==
    /\ subPc = "wait"
    /\ myGate \in closedGates
    /\ subPc' = "notify"
    /\ UNCHANGED << subRet, myGate, client, closeLog, notifyReg >>
    /\ UNCHANGED << resolverVars, adapterVars, producerVars, signalVars, gateVars,
                    loopVars, sessionVars >>

\* lines 138-139: sigterm := make(chan os.Signal, 1); signal.Notify(...)
SubNotify ==
    /\ subPc = "notify"
    /\ notifyReg' = TRUE
    /\ subPc' = "sigwait"
    /\ UNCHANGED << subRet, myGate, client, closeLog >>
    /\ UNCHANGED << resolverVars, adapterVars, producerVars, signalVars, gateVars,
                    loopVars, sessionVars >>

\* line 140: <-sigterm
SubRecvSignal ==
    /\ subPc = "sigwait"
    /\ sigBuf > 0
    /\ sigBuf' = sigBuf - 1
    /\ subPc' = "cancel"
    /\ UNCHANGED << sigCount, trigAfterReady >>
    /\ UNCHANGED << subRet, myGate, client, closeLog, notifyReg >>
    /\ UNCHANGED << resolverVars, adapterVars, producerVars, gateVars,
                    loopVars, sessionVars >>

\* line 141: cancel()
SubCancel ==
    /\ subPc = "cancel"
    /\ ctxCancelled' = TRUE
    /\ subPc' = "wgwait"
    /\ UNCHANGED << loopPc, consumeCalls, consumeErrSeen, err, wg >>
    /\ UNCHANGED << subRet, myGate, client, closeLog, notifyReg >>
    /\ UNCHANGED << resolverVars, adapterVars, producerVars, signalVars, gateVars,
                    sessionVars >>

\* Mutant of SubWgWait: does not wait for the consume loop
SubWgWait_NoWait ==
    /\ subPc = "wgwait"
    /\ subPc' = "close"
    /\ UNCHANGED << subRet, myGate, client, closeLog, notifyReg >>
    /\ UNCHANGED << resolverVars, adapterVars, producerVars, signalVars, gateVars,
                    loopVars, sessionVars >>

\* line 142: wg.Wait()
SubWgWait ==
    /\ subPc = "wgwait"
    /\ wg = 0
    /\ subPc' = "close"
    /\ UNCHANGED << subRet, myGate, client, closeLog, notifyReg >>
    /\ UNCHANGED << resolverVars, adapterVars, producerVars, signalVars, gateVars,
                    loopVars, sessionVars >>

\* Mutant of SubClose: closes the client but returns what err held before
SubClose_StaleErr(res) ==
    /\ subPc = "close"
    /\ closeLog' = Append(closeLog, res)
    /\ client' = "closed"
    /\ subRet' = err
    /\ subPc' = "done"
    /\ UNCHANGED << myGate, notifyReg >>
    /\ UNCHANGED << resolverVars, adapterVars, producerVars, signalVars, gateVars,
                    loopVars, sessionVars >>

\* lines 143-146: err = client.Close(); return err, or nil
SubClose(res) ==
    /\ subPc = "close"
    /\ closeLog' = Append(closeLog, res)
    /\ client' = "closed"
    /\ err' = res
    /\ subRet' = IF err' # Nil THEN err' ELSE Nil
    /\ subPc' = "done"
    /\ UNCHANGED << loopPc, consumeCalls, consumeErrSeen, ctxCancelled, wg >>
    /\ UNCHANGED << myGate, notifyReg >>
    /\ UNCHANGED << resolverVars, adapterVars, producerVars, signalVars, gateVars,
                    sessionVars >>

\* The external termination trigger (SIGINT or SIGTERM) during Subscribe.
\* The signal package relays it to sigterm only once signal.Notify has run,
\* and drops it when the channel's one-slot buffer is full; before that the
\* trigger never reaches Subscribe.
Signal ==
    /\ sigCount < MaxSignals
    /\ subPc \notin {"idle", "done"}
    /\ sigCount' = sigCount + 1
    /\ sigBuf' = IF notifyReg THEN 1 ELSE sigBuf
    /\ trigAfterReady' = (trigAfterReady \/ myGate \in closedGates)
    /\ UNCHANGED << resolverVars, adapterVars, producerVars, callerVars, gateVars,
                    loopVars, sessionVars >>

----------------------------------------------------------------------------
(* Subscribe: the background consume loop, lines 122-134, and the           *)
(* consumer-group client it drives                                          *)

\* the partitions of the topics handed to Consume
Claimed == { p \in Partitions : PartTopic[p] \in Range(k.topics) }

NoResults == [ p \in Partitions |-> [ o \in Offsets |-> NoRes ] ]

\* line 125: Consume fails before any session is set up
ConsumeFailEarly ==
    /\ loopPc = "consume"
    /\ consumeCalls < MaxConsume
    /\ consumeCalls' = consumeCalls + 1
    /\ err' = ErrConsume
    /\ consumeErrSeen' = TRUE
    /\ loopPc' = "check"
    /\ UNCHANGED << ctxCancelled, wg >>
    /\ UNCHANGED << resolverVars, adapterVars, producerVars, callerVars, signalVars,
                    gateVars, sessionVars >>

\* line 125: Consume is invoked with the context already cancelled and
\* returns at once
ConsumeCancelled(e) ==
    /\ loopPc = "consume"
    /\ ctxCancelled
    /\ consumeCalls' = consumeCalls + 1
    /\ err' = e
    /\ consumeErrSeen' = (consumeErrSeen \/ e # Nil)
    /\ loopPc' = "check"
    /\ UNCHANGED << ctxCancelled, wg >>
    /\ UNCHANGED << resolverVars, adapterVars, producerVars, callerVars, signalVars,
                    gateVars, sessionVars >>

\* line 125: Consume joins the group and a session starts; every partition
\* resumes at the offset the broker has on record
ConsumeStartSession ==
    /\ loopPc = "consume"
    /\ consumeCalls < MaxConsume
    /\ consumeCalls' = consumeCalls + 1
    /\ sess' = sess + 1
    /\ sessEnding' = FALSE
    /\ resume' = committed
    /\ pos' = committed
    /\ curRes' = NoResults
    /\ marked' = {}
    /\ cbCalls' = [ p \in Partitions |-> <<>> ]
    /\ loopPc' = "setup"
    /\ UNCHANGED << claimPc, committed >>
    /\ UNCHANGED << consumeErrSeen, err, ctxCancelled, wg >>
    /\ UNCHANGED << resolverVars, adapterVars, producerVars, callerVars, signalVars,
                    gateVars >>

\* consumer.Setup, called once by the session: close(consumer.ready); closing
\* a closed channel panics.  The claims' ConsumeClaim calls start after it.
Setup ==
    /\ loopPc = "setup"
    /\ IF cs.ready \in closedGates
       THEN /\ panicked' = TRUE
            /\ loopPc' = "panic"
            /\ UNCHANGED << closedGates, claimPc >>
       ELSE /\ closedGates' = closedGates \cup { cs.ready }
            /\ loopPc' = "claims"
            /\ claimPc' = [ p \in Partitions |->
                              IF p \in Claimed THEN "recv" ELSE "idle" ]
            /\ UNCHANGED panicked
    /\ UNCHANGED << cs, nextGate >>
    /\ UNCHANGED << consumeCalls, consumeErrSeen, err, ctxCancelled, wg >>
    /\ UNCHANGED << sess, sessEnding, pos, resume, committed, curRes,
                    marked, cbCalls >>
    /\ UNCHANGED << resolverVars, adapterVars, producerVars, callerVars, signalVars >>

\* ConsumeClaim, line 47: the next record of the claim arrives; lines 48-52:
\* the callback, when there is one, is invoked with the claim's topic and
\* the record's value
ClaimRecv(p) ==
    /\ loopPc = "claims"
    /\ claimPc[p] = "recv"
    /\ ~sessEnding
    /\ pos[p] < LogLen
    /\ IF cs.callback # Nil
       THEN /\ claimPc' = [ claimPc EXCEPT ![p] = "incb" ]
            /\ cbCalls' = [ cbCalls EXCEPT ![p] =
                   Append(@, [ off |-> pos[p], Topic |-> PartTopic[p],
                               Data |-> Payload(p, pos[p]) ]) ]
            /\ UNCHANGED pos
       ELSE /\ pos' = [ pos EXCEPT ![p] = @ + 1 ]
            /\ UNCHANGED << claimPc, cbCalls >>
    /\ UNCHANGED << sess, sessEnding, resume, committed, curRes, marked >>
    /\ UNCHANGED << resolverVars, adapterVars, producerVars, callerVars, signalVars,
                    gateVars, loopVars >>

\* Mutants of CallbackReturn: marks whatever the callback returned; never marks
CallbackReturn_AlwaysMark(p, e) ==
    /\ loopPc = "claims"
    /\ claimPc[p] = "incb"
    /\ curRes' = [ curRes EXCEPT ![p][pos[p]] = e ]
    /\ claimPc' = [ claimPc EXCEPT ![p] = "mark" ]
    /\ UNCHANGED pos
    /\ UNCHANGED << sess, sessEnding, resume, committed, marked, cbCalls >>
    /\ UNCHANGED << resolverVars, adapterVars, producerVars, callerVars, signalVars,
                    gateVars, loopVars >>

CallbackReturn_NeverMark(p, e) ==
    /\ loopPc = "claims"
    /\ claimPc[p] = "incb"
    /\ curRes' = [ curRes EXCEPT ![p][pos[p]] = e ]
    /\ claimPc' = [ claimPc EXCEPT ![p] = "recv" ]
    /\ pos' = [ pos EXCEPT ![p] = @ + 1 ]
    /\ UNCHANGED << sess, sessEnding, resume, committed, marked, cbCalls >>
    /\ UNCHANGED << resolverVars, adapterVars, producerVars, callerVars, signalVars,
                    gateVars, loopVars >>

\* Mutant of CallbackReturn: a callback error ends the claim
CallbackReturn_StopOnError(p, e) ==
    /\ loopPc = "claims"
    /\ claimPc[p] = "incb"
    /\ curRes' = [ curRes EXCEPT ![p][pos[p]] = e ]
    /\ IF e = Nil
       THEN /\ claimPc' = [ claimPc EXCEPT ![p] = "mark" ]
            /\ UNCHANGED pos
       ELSE /\ claimPc' = [ claimPc EXCEPT ![p] = "exited" ]
            /\ pos' = [ pos EXCEPT ![p] = @ + 1 ]
    /\ UNCHANGED << sess, sessEnding, resume, committed, marked, cbCalls >>
    /\ UNCHANGED << resolverVars, adapterVars, producerVars, callerVars, signalVars,
                    gateVars, loopVars >>

\* ConsumeClaim, lines 49-53: the callback returns e; on nil the record goes
\* on to be marked, on an error the loop takes the next record
CallbackReturn(p, e) ==
    /\ loopPc = "claims"
    /\ claimPc[p] = "incb"
    /\ curRes' = [ curRes EXCEPT ![p][pos[p]] = e ]
    /\ IF e = Nil
       THEN /\ claimPc' = [ claimPc EXCEPT ![p] = "mark" ]
            /\ UNCHANGED pos
       ELSE /\ claimPc' = [ claimPc EXCEPT ![p] = "recv" ]
            /\ pos' = [ pos EXCEPT ![p] = @ + 1 ]
    /\ UNCHANGED << sess, sessEnding, resume, committed, marked, cbCalls >>
    /\ UNCHANGED << resolverVars, adapterVars, producerVars, callerVars, signalVars,
                    gateVars, loopVars >>

\* session.MarkMessage(message, ""): the client records offset + 1 as the
\* partition's position, never moving it backwards; a restart resumes there
MarkMessage(p, off) == [ committed EXCEPT ![p] = Max(@, off + 1) ]

\* ConsumeClaim, line 54
Mark(p) ==
    /\ loopPc = "claims"
    /\ claimPc[p] = "mark"
    /\ committed' = MarkMessage(p, pos[p])
    /\ marked' = marked \cup { << p, pos[p] >> }
    /\ pos' = [ pos EXCEPT ![p] = @ + 1 ]
    /\ claimPc' = [ claimPc EXCEPT ![p] = "recv" ]
    /\ UNCHANGED << sess, sessEnding, resume, curRes, cbCalls >>
    /\ UNCHANGED << resolverVars, adapterVars, producerVars, callerVars, signalVars,
                    gateVars, loopVars >>

\* the session ends (rebalance, error or cancelled context): the client
\* closes the claims' message channels
SessionEnd ==
    /\ loopPc = "claims"
    /\ ~sessEnding
    /\ sessEnding' = TRUE
    /\ UNCHANGED << sess, claimPc, pos, resume, committed, curRes,
                    marked, cbCalls >>
    /\ UNCHANGED << resolverVars, adapterVars, producerVars, callerVars, signalVars,
                    gateVars, loopVars >>

\* ConsumeClaim, lines 47 and 58: the range over a closed channel ends
ClaimClosed(p) ==
    /\ loopPc = "claims"
    /\ claimPc[p] = "recv"
    /\ sessEnding
    /\ claimPc' = [ claimPc EXCEPT ![p] = "exited" ]
    /\ UNCHANGED << sess, sessEnding, pos, resume, committed, curRes,
                    marked, cbCalls >>
    /\ UNCHANGED << resolverVars, adapterVars, producerVars, callerVars, signalVars,
                    gateVars, loopVars >>

\* line 125: every ConsumeClaim has returned, Cleanup is called, Consume
\* returns e, which the loop assigns to Subscribe's err
ConsumeReturn(e) ==
    /\ loopPc = "claims"
    /\ sessEnding
    /\ \A p \in Partitions : claimPc[p] \in {"idle", "exited"}
    /\ claimPc' = [ p \in Partitions |-> "idle" ]
    /\ err' = e
    /\ consumeErrSeen' = (consumeErrSeen \/ e # Nil)
    /\ loopPc' = "check"
    /\ UNCHANGED << consumeCalls, ctxCancelled, wg >>
    /\ UNCHANGED << sess, sessEnding, pos, resume, committed, curRes,
                    marked, cbCalls >>
    /\ UNCHANGED << resolverVars, adapterVars, producerVars, callerVars, signalVars,
                    gateVars >>

\* Mutants of LoopCheck: gives up after a Consume error; skips line 132
LoopCheck_ExitOnErr ==
    /\ loopPc = "check"
    /\ IF ctxCancelled \/ err # Nil
       THEN /\ loopPc' = "exited"
            /\ wg' = wg - 1
       ELSE /\ loopPc' = "reset"
            /\ UNCHANGED wg
    /\ UNCHANGED << consumeCalls, consumeErrSeen, err, ctxCancelled >>
    /\ UNCHANGED << resolverVars, adapterVars, producerVars, callerVars, signalVars,
                    gateVars, sessionVars >>

LoopCheck_SkipReset ==
    /\ loopPc = "check"
    /\ IF ctxCancelled
       THEN /\ loopPc' = "exited"
            /\ wg' = wg - 1
       ELSE /\ loopPc' = "consume"
            /\ UNCHANGED wg
    /\ UNCHANGED << consumeCalls, consumeErrSeen, err, ctxCancelled >>
    /\ UNCHANGED << resolverVars, adapterVars, producerVars, callerVars, signalVars,
                    gateVars, sessionVars >>

\* lines 129-131, with the deferred wg.Done() of line 123
LoopCheck ==
    /\ loopPc = "check"
    /\ IF ctxCancelled
       THEN /\ loopPc' = "exited"
            /\ wg' = wg - 1
       ELSE /\ loopPc' = "reset"
            /\ UNCHANGED wg
    /\ UNCHANGED << consumeCalls, consumeErrSeen, err, ctxCancelled >>
    /\ UNCHANGED << resolverVars, adapterVars, producerVars, callerVars, signalVars,
                    gateVars, sessionVars >>

\* Mutant of LoopReset: keeps the channel in place
LoopReset_KeepGate ==
    /\ loopPc = "reset"
    /\ loopPc' = "consume"
    /\ UNCHANGED << cs, nextGate, closedGates, panicked >>
    /\ UNCHANGED << consumeCalls, consumeErrSeen, err, ctxCancelled, wg >>
    /\ UNCHANGED << resolverVars, adapterVars, producerVars, callerVars, signalVars,
                    sessionVars >>

\* line 132: cs.ready = make(chan bool)
LoopReset ==
    /\ loopPc = "reset"
    /\ cs' = [ cs EXCEPT !.ready = nextGate ]
    /\ nextGate' = nextGate + 1
    /\ loopPc' = "consume"
    /\ UNCHANGED << closedGates, panicked >>
    /\ UNCHANGED << consumeCalls, consumeErrSeen, err, ctxCancelled, wg >>
    /\ UNCHANGED << resolverVars, adapterVars, producerVars, callerVars, signalVars,
                    sessionVars >>

----------------------------------------------------------------------------
(* The subscribe path: one Init call, then one Subscribe call with its loop *)

InitOnce(metadata, ok) ==
    /\ initCalls = 0
    /\ KafkaInit(metadata, ok)

CallerStep ==
    \/ SubReadGate
    \/ SubPassGate
    \/ SubNotify
    \/ SubRecvSignal
    \/ SubCancel
    \/ SubWgWait
    \/ \E res \in {Nil, ErrClose} : SubClose(res)

LoopStep ==
    \/ LoopCheck
    \/ LoopReset

ClientStep ==
    \/ ConsumeFailEarly
    \/ \E e \in {Nil, ErrConsume} : ConsumeCancelled(e)
    \/ ConsumeStartSession
    \/ Setup
    \/ \E p \in Partitions : ClaimRecv(p)
    \/ \E p \in Partitions, e \in {Nil, ErrCallback} : CallbackReturn(p, e)
    \/ \E p \in Partitions : Mark(p)
    \/ SessionEnd
    \/ \E p \in Partitions : ClaimClosed(p)
    \/ \E e \in {Nil, ErrConsume} : ConsumeReturn(e)

Next ==
    \/ \E m \in InitProps, ok \in BOOLEAN : InitOnce(m, ok)
    \/ \E handler \in {Nil, "fn"}, ok \in BOOLEAN : SubscribeCall(handler, ok)
    \/ CallerStep
    \/ LoopStep
    \/ ClientStep
    \/ Signal

Spec == Init /\ [][Next]_vars

\* The scheduler runs the caller and the loop whenever they can take a step,
\* and the client, once the context is cancelled, ends the session and
\* returns from Consume.
FairSpec ==
    /\ Spec
    /\ WF_vars(CallerStep)
    /\ WF_vars(LoopStep)
    /\ WF_vars(ctxCancelled /\ ClientStep)

\* One adapter used for both: Init once, then Publish calls, or a Subscribe
\* call and a Publish after it has returned.
PublishOnce ==
    /\ subPc \in {"idle", "done"}
    /\ subPc = "done" => pubLog = <<>>
    /\ \E req \in Requests, script \in BrokerScripts : Publish(req, script)

SubscribeOnce ==
    /\ pubLog = <<>>
    /\ \E handler \in {Nil, "fn"}, ok \in BOOLEAN : SubscribeCall(handler, ok)

UseNext ==
    \/ \E m \in InitProps, ok \in BOOLEAN : InitOnce(m, ok)
    \/ PublishOnce
    \/ SubscribeOnce
    \/ CallerStep
    \/ LoopStep
    \/ ClientStep
    \/ Signal

UseSpec == Init /\ [][UseNext]_vars

----------------------------------------------------------------------------
(* Claims about the configuration resolver (ResolverSpec)                   *)

Commas(s) == Cardinality({ i \in DOMAIN s : s[i] = Comma })

RECURSIVE Join(_)
Join(l) ==
    IF Len(l) = 0 THEN <<>>
    ELSE IF Len(l) = 1 THEN l[1]
    ELSE l[1] \o << Comma >> \o Join(Tail(l))

\* l is the list of the comma-separated pieces of s, in order
IsPiecesOf(l, s) ==
    /\ Len(l) = Commas(s) + 1
    /\ \A i \in DOMAIN l : Comma \notin Range(l[i])
    /\ Join(l) = s

Resolved == meta.err # Unset

NonEmpty(key) == key \in DOMAIN props /\ props[key] # <<>>

\* C9: a non-empty brokers value and a non-empty topics value are resolved to
\* the list of their comma-separated pieces in the original order (one
\* element holding the value when it has no comma), and consumerGroup is
\* copied through unchanged.
C9_ResolverSplitsInOrder ==
    Resolved =>
        /\ NonEmpty("brokers") => IsPiecesOf(meta.Brokers, props["brokers"])
        /\ NonEmpty("topics") => IsPiecesOf(meta.Topics, props["topics"])
        /\ NonEmpty("brokers") /\ Commas(props["brokers"]) = 0
              => meta.Brokers = << props["brokers"] >>
        /\ NonEmpty("topics") /\ Commas(props["topics"]) = 0
              => meta.Topics = << props["topics"] >>
        /\ "consumerGroup" \in DOMAIN props
              => meta.ConsumerGroup = props["consumerGroup"]

C9_Witness ==
    /\ Resolved
    /\ props = [ brokers |-> <<"a", Comma, "b">>, topics |-> <<"b">>,
                 consumerGroup |-> << Comma >> ]
    /\ meta.Brokers = << <<"a">>, <<"b">> >>
    /\ meta.Topics = << <<"b">> >>
    /\ meta.ConsumerGroup = << Comma >>

\* C10: a missing or empty brokers, topics or consumerGroup is resolved to an
\* empty list (brokers, topics) or the empty string (consumerGroup), and the
\* resolver returns no error for any property map.
C10_ResolverToleratesMissing ==
    Resolved =>
        /\ meta.err = Nil
        /\ ~NonEmpty("brokers") => meta.Brokers = <<>>
        /\ ~NonEmpty("topics") => meta.Topics = <<>>
        /\ ~NonEmpty("consumerGroup") => meta.ConsumerGroup = <<>>

C10_Witness ==
    /\ Resolved
    /\ props = [ brokers |-> <<>>, consumerGroup |-> <<"a">> ]
    /\ meta = [ Brokers |-> <<>>, Topics |-> <<>>, ConsumerGroup |-> <<"a">>,
                err |-> Nil ]

----------------------------------------------------------------------------
(* Claims about the subscribe path (Spec, FairSpec)                         *)

Delivered(p, o) == \E i \in DOMAIN cbCalls[p] : cbCalls[p][i].off = o

\* C1: a message is marked only if the callback was invoked for that exact
\* message and returned success before the mark; the offset the broker has
\* on record moves only past a message whose callback succeeded.
C1_MarkedOnlyAfterSuccess ==
    /\ \A m \in marked : Delivered(m[1], m[2]) /\ curRes[m[1]][m[2]] = Nil
    /\ \A p \in Partitions :
          committed[p] # resume[p] =>
              /\ << p, committed[p] - 1 >> \in marked
              /\ curRes[p][committed[p] - 1] = Nil

C1_Witness ==
    /\ marked = { << 1, 0 >> }
    /\ curRes[1][1] = ErrCallback
    /\ committed[1] = 1

\* C2: when the callback returns an error for a message, the next session
\* restart redelivers that message (the partition resumes at or before its
\* offset), whatever the callback returned for later messages.
C2_ErrorRedelivered ==
    [][ sess' = sess + 1 =>
          \A p \in Partitions, o \in Offsets :
              curRes[p][o] = ErrCallback => resume'[p] <= o ]_vars

\* C3: when the callback returns success for a message, the next session
\* restart does not redeliver it: the partition resumes past its offset.
C3_SuccessNotRedelivered ==
    [][ sess' = sess + 1 =>
          \A p \in Partitions, o \in Offsets :
              curRes[p][o] = Nil => resume'[p] > o ]_vars

C3_Witness ==
    /\ sess = 2
    /\ resume[1] = 1
    /\ Len(cbCalls[1]) = 1
    /\ cbCalls[1][1].off = 1

\* C4: shutdown runs cancel, then loop exit, then close: Close is invoked
\* only with the context cancelled and the consume loop exited, and
\* Subscribe, once it has a client, returns only after Close.
C4_ShutdownOrder ==
    /\ subPc = "close" => ctxCancelled /\ loopPc = "exited"
    /\ client = "closed" => ctxCancelled /\ loopPc = "exited"
    /\ closeLog # <<>> => client = "closed"
    /\ subPc = "done" /\ client # "none" => client = "closed" /\ Len(closeLog) = 1

C4_Witness ==
    /\ subPc = "done"
    /\ client = "closed"
    /\ sess = 2
    /\ marked # {}

\* C5: a termination trigger that fires after the ready gate was released
\* leads to Subscribe returning with the client closed exactly once.
C5_TriggerAfterReadyShutsDown ==
    trigAfterReady ~> (subPc = "done" /\ Len(closeLog) = 1)

\* C6: when the client was constructed, Subscribe returns exactly the result
\* of Close; callback errors and Consume errors never reach the return value.
C6_ReturnsCloseResult ==
    subPc = "done" /\ client # "none" =>
        /\ Len(closeLog) = 1
        /\ subRet = closeLog[1]

C6_Witness ==
    /\ subPc = "done"
    /\ consumeErrSeen
    /\ \E p \in Partitions, o \in Offsets : curRes[p][o] = ErrCallback
    /\ closeLog = << Nil >>
    /\ subRet = Nil

\* the call was made and the client's construction failed
ConstructionFailed == subPc # "idle" /\ client = "none"

\* C7: when the client's construction fails, Subscribe returns that error at
\* once: no consume task, no Consume, no callback, no Close, no waiting.
C7_ConstructionFailureReturns ==
    ConstructionFailed =>
        /\ subPc = "done"
        /\ subRet = ErrConnect
        /\ loopPc = "idle"
        /\ wg = 0
        /\ consumeCalls = 0
        /\ sess = 0
        /\ \A p \in Partitions : cbCalls[p] = <<>>
        /\ closeLog = <<>>
        /\ closedGates = {}
        /\ ~notifyReg

C7_Witness ==
    /\ ConstructionFailed
    /\ k.brokers = << <<"a">>, <<"b">> >>
    /\ subRet = ErrConnect

\* the caller is past the ready wait: it waits for the shutdown signal or
\* has gone on from there
PastReadyWait == subPc \in {"sigwait", "cancel", "wgwait", "close", "done"}

\* C11: once Setup has been invoked, the Subscribe caller eventually passes
\* the ready wait and goes on to wait for the shutdown signal, whatever
\* Consume returned before and however the caller's read of the gate
\* interleaves with the loop's replacement of it.
C11_SetupLeadsPastReadyWait ==
    (closedGates # {}) ~> PastReadyWait

\* Setup calls made so far: one per session, the last one pending while the
\* session is being set up
SetupCalls == sess - (IF loopPc = "setup" THEN 1 ELSE 0)

\* C12: every gate is released at most once: no Setup call finds the gate in
\* place already released, no close of a closed channel ever happens, and
\* every Setup call has released a gate of its own.
C12_GateReleasedOnce ==
    /\ ~panicked
    /\ loopPc = "setup" => cs.ready \notin closedGates
    /\ Cardinality(closedGates) = SetupCalls

C12_Witness ==
    /\ sess = 2
    /\ closedGates = {1, 2}
    /\ loopPc = "claims"
    /\ ~panicked

\* the loop is inside a Consume invocation
InConsume == loopPc \in {"setup", "claims"}

\* C13: the consume loop exits only on cancellation.  After a Consume return
\* the loop is at its check; from there it exits exactly when the context is
\* cancelled and otherwise goes on to re-invoke Consume, whatever err holds;
\* a Consume return under a cancelled context is the last one: no Consume
\* is invoked after it.
C13_LoopExitsOnlyOnCancel ==
    /\ [](loopPc = "exited" => ctxCancelled)
    /\ [][ /\ (InConsume /\ ~InConsume') => loopPc' = "check"
           /\ (loopPc = "check" /\ loopPc' # "check")
                 => loopPc' = (IF ctxCancelled THEN "exited" ELSE "reset")
           /\ (loopPc = "reset" /\ loopPc' # "reset") => loopPc' = "consume"
           /\ (loopPc \in {"check", "exited"} /\ ctxCancelled)
                 => consumeCalls' = consumeCalls /\ loopPc' \in {"check", "exited"}
         ]_vars

C13_Witness ==
    /\ loopPc = "consume"
    /\ consumeCalls = 2
    /\ sess = 0
    /\ err = ErrConsume
    /\ ~ctxCancelled

\* C14: whenever Consume is re-invoked, the gate in place is fresh and
\* unreleased: it is the channel made last, it is not closed, and it is not
\* a gate an earlier Setup released.
C14_FreshGateOnReinvoke ==
    (loopPc = "consume" /\ consumeCalls >= 1) =>
        /\ cs.ready \notin closedGates
        /\ cs.ready = nextGate - 1
        /\ \A g \in closedGates : g < cs.ready

C14_Witness ==
    /\ loopPc = "consume"
    /\ consumeCalls = 1
    /\ closedGates = {1}
    /\ cs.ready = 2

\* the gate the caller waits on has been released
CallerGateReleased == myGate \in closedGates

\* C15: Subscribe starts no shutdown before readiness.  While the gate the
\* caller waits on is unreleased, the context is not cancelled, Close has
\* not been invoked, the caller has not registered for the signal, and a
\* trigger that fires leaves sigterm empty: Subscribe does not act on it.
C15_NoShutdownBeforeReady ==
    /\ [](~CallerGateReleased =>
            /\ ~ctxCancelled
            /\ closeLog = <<>>
            /\ client # "closed"
            /\ ~notifyReg
            /\ sigBuf = 0
            /\ subPc \in {"idle", "readgate", "wait", "done"})
    /\ [][ (sigCount' > sigCount /\ ~CallerGateReleased) =>
               /\ sigBuf' = 0
               /\ subPc' = subPc
               /\ ctxCancelled' = ctxCancelled ]_vars

C15_Witness ==
    /\ sigCount = 1
    /\ ~trigAfterReady
    /\ CallerGateReleased
    /\ subPc = "sigwait"
    /\ sigBuf = 0
    /\ ~ctxCancelled

\* the number of records of p's claim that are with the callback or about to
\* be marked
InFlight(p) == IF claimPc[p] \in {"incb", "mark"} THEN 1 ELSE 0

\* the callback invocation ConsumeClaim owes the record at offset o of p
CallFor(p, o) == [ off |-> o, Topic |-> PartTopic[p], Data |-> Payload(p, o) ]

\* C16: with a callback set, the invocations made within a claim are one per
\* record received, in the claim's order from the offset the claim resumed
\* at, each with the claim's topic and the record's payload; every record the
\* claim is done with is marked exactly when its own callback succeeded; a
\* callback error sends the claim on to its next record, and a claim ends
\* only when the session closes its channel.
C16_EveryRecordHandled ==
    /\ [](cs.callback # Nil =>
           \A p \in Partitions :
              /\ Len(cbCalls[p]) = pos[p] - resume[p] + InFlight(p)
              /\ \A i \in DOMAIN cbCalls[p] :
                     cbCalls[p][i] = CallFor(p, resume[p] + i - 1)
              /\ \A o \in Offsets :
                     (resume[p] <= o /\ o < pos[p]) =>
                         (<< p, o >> \in marked <=> curRes[p][o] = Nil)
              /\ claimPc[p] = "exited" => sessEnding)
    /\ [][ \A p \in Partitions :
              ( /\ claimPc[p] = "incb"
                /\ claimPc'[p] # "incb"
                /\ curRes'[p][pos[p]] = ErrCallback ) =>
                  /\ claimPc'[p] = "recv"
                  /\ pos'[p] = pos[p] + 1
                  /\ marked' = marked ]_vars

C16_Witness ==
    /\ cs.callback # Nil
    /\ resume[1] = 0
    /\ curRes[1][0] = ErrCallback
    /\ cbCalls[1] = << CallFor(1, 0), CallFor(1, 1) >>
    /\ marked = { << 1, 1 >> }
    /\ claimPc[1] = "recv"

----------------------------------------------------------------------------
(* Claims about the publish path (PublishSpec)                              *)

\* C8: every Publish call makes exactly one SendMessage with the request's
\* topic and payload and returns the producer's result unchanged; a failed
\* send is not repeated and nothing is held back for a later call.
C8_PublishSendsOnce ==
    /\ Len(sendLog) = Len(pubLog)
    /\ \A i \in DOMAIN pubLog :
          /\ i \in DOMAIN sendLog
          /\ sendLog[i].msg = [ Topic |-> pubLog[i].req.Topic,
                                Value |-> pubLog[i].req.Data ]
          /\ pubLog[i].ret = sendLog[i].res

C8_Witness ==
    /\ pubLog = << [ req |-> [ Topic |-> <<"a">>, Data |-> <<>> ], ret |-> ErrSend ],
                   [ req |-> [ Topic |-> <<"o">>, Data |-> <<1, 2, 3>> ], ret |-> Nil ] >>
    /\ Len(sendLog) = 2

\* the attempts a retry budget of RetryBudget allows for one message: the
\* first and RetryBudget retries
Allowed == RetryBudget + 1

\* the attempts of send i that the broker rejected
Rejected(i) ==
    IF sendLog[i].res = Nil THEN sendLog[i].attempts - 1 ELSE sendLog[i].attempts

C19_FailedInitLeavesAdapter ==
    /\ [](initRet \in {Unset, Nil, ErrProducer})
    /\ [][ /\ (initCalls' = initCalls + 1 /\ initRet' # Nil) => k' = k
           /\ k' # k => (initCalls' = initCalls + 1 /\ initRet' = Nil)
         ]_vars

C19_Witness ==
    /\ initCalls = 2
    /\ initRet = ErrProducer
    /\ k.producer = 1
    /\ k.brokers # <<>>

\* C18: once Init has succeeded, the adapter's brokers, topics, consumerGroup
\* and producer change in no step of a Publish or of a Subscribe, whatever
\* they return; every send goes through the producer that Init created.
C18_OnlyInitChangesAdapter ==
    /\ [](\A i \in DOMAIN sendLog :
             /\ initRet = Nil
             /\ sendLog[i].producer = k.producer
             /\ k.producer = nextProducer - 1)
    /\ [][ initCalls' = initCalls => k' = k ]_vars
    /\ [][ (pubLog' # pubLog \/ subPc' # subPc \/ loopPc' # loopPc) => k' = k ]_vars

C18_Witness ==
    /\ initRet = Nil
    /\ subPc = "done"
    /\ client = "closed"
    /\ sess >= 1
    /\ Len(pubLog) = 1
    /\ sendLog[1].producer = k.producer
    /\ k.consumerGroup # <<>>

====
